---- MODULE Spec2Model ----
(***************************************************************************)
(* A model of stylecheckertwo.py: the parent annotator, the eight fact     *)
(* extractors over the parsed tree, and the control flow of main.          *)
(*                                                                         *)
(* Text is a sequence of one-character strings, so that prefixes,          *)
(* character classes and concatenation are computed, not assumed.          *)
(*                                                                         *)
(* The tree is the projection of Python's AST onto the nodes the program   *)
(* distinguishes: Module, Import, ImportFrom, ClassDef, FunctionDef,       *)
(* AsyncFunctionDef, "If" (any other node that has statement children),    *)
(* "Name" (an expression leaf whose ctx child is the Load singleton that   *)
(* the parser shares between all such nodes).                              *)
(***************************************************************************)
EXTENDS Integers, Sequences, FiniteSets, TLC

VARIABLES
    pc,                  \* position of main, or "lib" when the functions are called directly
    env,                 \* what main meets outside: the path entered and the file behind it
    tree,                \* the tree parse_ast returned (n = 0: none yet)
    parent,              \* the .parent attribute of every node (NoneId: attribute absent)
    runs,                \* how often add_parents has run: 0, 1, 2 (= twice or more)
    done,                \* the locals of main (or results of direct calls) computed so far
    imports,
    classes,
    functions,
    docstrings,
    missing_annotations,
    bad_class_names,
    bad_func_names,
    special_methods,
    lines,               \* len(lines) of read_source_file
    stdout,              \* what print() wrote
    writes,              \* invocations of write_report
    report,              \* the report file: absent, or the data written
    raised               \* the exception that left main, "" when none

vars == <<pc, env, tree, parent, runs, done, imports, classes, functions, docstrings,
          missing_annotations, bad_class_names, bad_func_names, special_methods,
          lines, stdout, writes, report, raised>>

(***************************************************************************)
(* Bounds of the model.                                                    *)
(***************************************************************************)
MaxNodes == 4        \* nodes of a tree, the Module root included
MaxNameLen == 4      \* length of an enumerated function name
MaxArgs == 2         \* positional-or-keyword parameters of an enumerated function
MaxLines == 1        \* lines of the source text

(***************************************************************************)
(* Characters and text.                                                    *)
(***************************************************************************)
Lower == {"a","b","c","d","e","f","g","h","i","j","k","l","m",
          "n","o","p","q","r","s","t","u","v","w","x","y","z"}

Upper == {"A","B","C","D","E","F","G","H","I","J","K","L","M",
          "N","O","P","Q","R","S","T","U","V","W","X","Y","Z"}

Digit == {"0","1","2","3","4","5","6","7","8","9"}

\* The characters of the model in ascending code point order.
CodePointOrder ==
    <<" ", ".", "0","1","2","3","4","5","6","7","8","9", ":",
      "A","B","C","D","E","F","G","H","I","J","K","L","M",
      "N","O","P","Q","R","S","T","U","V","W","X","Y","Z", "_",
      "a","b","c","d","e","f","g","h","i","j","k","l","m",
      "n","o","p","q","r","s","t","u","v","w","x","y","z">>

Ord(c) == CHOOSE i \in DOMAIN CodePointOrder : CodePointOrder[i] = c

\* Python's str.__lt__: lexicographic by code point, a proper prefix first.
RECURSIVE StrLess(_, _)
StrLess(a, b) ==
    IF b = <<>> THEN FALSE
    ELSE IF a = <<>> THEN TRUE
    ELSE IF Head(a) = Head(b) THEN StrLess(Tail(a), Tail(b))
    ELSE Ord(Head(a)) < Ord(Head(b))

startswith(s, p) == Len(s) >= Len(p) /\ SubSeq(s, 1, Len(p)) = p

endswith(s, p) == Len(s) >= Len(p) /\ SubSeq(s, Len(s) - Len(p) + 1, Len(s)) = p

(***************************************************************************)
(* Nodes.                                                                  *)
(***************************************************************************)
NoneId == -1         \* getattr(node, 'parent', None) is None
LoadId == 0          \* the shared ast.Load() instance
RootId == 1          \* the Module

NoDoc == [present |-> FALSE, text |-> <<>>]

Doc(text) == [present |-> TRUE, text |-> text]

\* ast.arguments: per parameter kind, one flag per parameter: has it an annotation.
Params(posonly, args, vararg, kwonly, kwarg) ==
    [posonlyargs |-> posonly, args |-> args, vararg |-> vararg,
     kwonlyargs |-> kwonly, kwarg |-> kwarg]

NoParams == Params(<<>>, <<>>, <<>>, <<>>, <<>>)

Node(kind, name, names, doc, params, returns) ==
    [kind |-> kind, name |-> name, names |-> names, doc |-> doc,
     args |-> params, returns |-> returns]

ModuleNode == Node("Module", <<>>, <<>>, NoDoc, NoParams, FALSE)

IfNode == Node("If", <<>>, <<>>, NoDoc, NoParams, FALSE)

NameNode == Node("Name", <<>>, <<>>, NoDoc, NoParams, FALSE)

ImportNode(names) == Node("Import", <<>>, names, NoDoc, NoParams, FALSE)

ImportFromNode(names) == Node("ImportFrom", <<>>, names, NoDoc, NoParams, FALSE)

ClassDef(name, doc) == Node("ClassDef", name, <<>>, doc, NoParams, FALSE)

FunctionDef(name, doc, params, returns) ==
    Node("FunctionDef", name, <<>>, doc, params, returns)

AsyncFunctionDef(name, doc, params, returns) ==
    Node("AsyncFunctionDef", name, <<>>, doc, params, returns)

\* Nodes with a statement body.
HasBody == {"Module", "ClassDef", "FunctionDef", "AsyncFunctionDef", "If"}

(***************************************************************************)
(* Trees: node i > 1 hangs under par[i] < i, siblings in the order of      *)
(* their numbers. Every ordered tree is there once, its nodes numbered in  *)
(* source order (a node hangs under the node before it or under one of     *)
(* that node's ancestors).                                                 *)
(***************************************************************************)
NoTree == [n |-> 0, par |-> <<>>, node |-> <<>>]

RECURSIVE SelfAndAncestors(_, _)
SelfAndAncestors(p, i) == IF i = 0 THEN {} ELSE {i} \cup SelfAndAncestors(p, p[i])

ParentMaps(n) ==
    {p \in [1..n -> 0..n] :
        /\ p[1] = 0
        /\ \A i \in 2..n : p[i] \in 1..(i-1)
        /\ \A i \in 3..n : p[i] \in SelfAndAncestors(p, i - 1)}

TreesOfSize(n, descs) ==
    {t \in {[n |-> n, par |-> p, node |-> d] :
               p \in ParentMaps(n),
               d \in {x \in [1..n -> descs \cup {ModuleNode}] :
                         x[1] = ModuleNode /\ \A i \in 2..n : x[i] \in descs}} :
        \A i \in 2..n : t.node[t.par[i]].kind \in HasBody}

Trees(descs) == UNION {TreesOfSize(n, descs) : n \in 1..MaxNodes}

Ids(t) == 1..t.n

type_of(t, id) ==
    IF id = NoneId THEN "NoneType"
    ELSE IF id = LoadId THEN "Load"
    ELSE t.node[id].kind

isinstance(t, id, kinds) == type_of(t, id) \in kinds

\* ast.iter_child_nodes
iter_child_nodes(t, id) ==
    IF id = LoadId THEN <<>>
    ELSE IF t.node[id].kind = "Name" THEN <<LoadId>>
    ELSE SelectSeq([i \in 1..t.n |-> i], LAMBDA i : t.par[i] = id)

\* ast.walk: todo = deque([node]); popleft, extend by the children, yield.
RECURSIVE walk_todo(_, _)
walk_todo(t, todo) ==
    IF todo = <<>> THEN <<>>
    ELSE <<Head(todo)>> \o walk_todo(t, Tail(todo) \o iter_child_nodes(t, Head(todo)))

\* A walk that goes into each child before its next sibling.
RECURSIVE walk_stack(_, _)
walk_stack(t, todo) ==
    IF todo = <<>> THEN <<>>
    ELSE <<Head(todo)>> \o walk_stack(t, iter_child_nodes(t, Head(todo)) \o Tail(todo))

ast_walk_preorder(t) == walk_stack(t, <<RootId>>)

ast_walk(t) == walk_todo(t, <<RootId>>)

(***************************************************************************)
(* add_parents                                                             *)
(***************************************************************************)
Unannotated(t) == [i \in 0..t.n |-> NoneId]

\* A version that keeps a .parent that is already there and links new
\* children to it.
set_children_parent_chained(par, node, children) ==
    [c \in DOMAIN par |->
        IF \E k \in DOMAIN children : children[k] = c
        THEN (IF par[c] = NoneId THEN node ELSE RootId)
        ELSE par[c]]

\* for child in ast.iter_child_nodes(node): child.parent = node
set_children_parent(par, node, children) ==
    [c \in DOMAIN par |->
        IF \E k \in DOMAIN children : children[k] = c THEN node ELSE par[c]]

RECURSIVE add_parents_walk(_, _, _)
add_parents_walk(t, par, todo) ==
    IF todo = <<>> THEN par
    ELSE add_parents_walk(
            t,
            set_children_parent(par, Head(todo), iter_child_nodes(t, Head(todo))),
            Tail(todo))

add_parents(t, par) == add_parents_walk(t, par, ast_walk(t))

(***************************************************************************)
(* The extractors.                                                         *)
(***************************************************************************)
name_of(t, id) == t.node[id].name

\* [node.name for node in nodes]
names_of(t, nodes) == [i \in 1..Len(nodes) |-> name_of(t, nodes[i])]

\* name.startswith('__') and name.endswith('__')
is_special_method(name) ==
    startswith(name, <<"_", "_">>) /\ endswith(name, <<"_", "_">>)

StrMin(S) == CHOOSE m \in S : \A x \in S \ {m} : StrLess(m, x)

\* sorted() of a set of strings
RECURSIVE sorted(_)
sorted(S) ==
    IF S = {} THEN <<>>
    ELSE <<StrMin(S)>> \o sorted(S \ {StrMin(S)})

Range(s) == {s[i] : i \in DOMAIN s}

\* node.names[0].name of every import statement, in the order of the walk
import_names(t) ==
    LET nodes == SelectSeq(ast_walk(t),
                           LAMBDA n : isinstance(t, n, {"Import", "ImportFrom"}))
    IN  [i \in 1..Len(nodes) |-> t.node[nodes[i]].names[1]]

get_imports_unsorted(t) == import_names(t)

get_imports(t) == sorted(Range(import_names(t)))

get_classes(t) ==
    names_of(t, SelectSeq(ast_walk(t),
                          LAMBDA n : isinstance(t, n, {"ClassDef"})))

\* A version that leaves the parent test out.
get_functions_all(t, par) ==
    names_of(t, SelectSeq(ast_walk(t),
                          LAMBDA n : isinstance(t, n, {"FunctionDef"})))

get_functions(t, par) ==
    names_of(t, SelectSeq(ast_walk(t),
                          LAMBDA n : /\ isinstance(t, n, {"FunctionDef"})
                                     /\ ~isinstance(t, par[n], {"ClassDef"})))

get_special_methods(t) ==
    names_of(t, SelectSeq(ast_walk(t),
                          LAMBDA n : /\ isinstance(t, n, {"FunctionDef"})
                                     /\ is_special_method(name_of(t, n))))

RECURSIVE lstrip(_)
lstrip(s) ==
    IF s # <<>> /\ Head(s) = " " THEN lstrip(Tail(s)) ELSE s

\* ast.get_docstring(node): None without a docstring, else inspect.cleandoc of
\* it, which for the one-line texts of the model strips the leading blanks.
ast_get_docstring(t, id) ==
    IF t.node[id].doc.present THEN Doc(lstrip(t.node[id].doc.text)) ELSE NoDoc

NotFoundText ==
    <<":", " ", "D", "o", "c", "S", "t", "r", "i", "n", "g", " ",
      "n", "o", "t", " ", "f", "o", "u", "n", "d", ".">>

\* A version that puts a blank, not a line break, after the colon.
docstring_entry_inline(name, doc) ==
    IF doc.present /\ doc.text # <<>>
    THEN name \o <<":", " ">> \o doc.text
    ELSE name \o NotFoundText

\* f"{node.name}:\n{doc}" if doc else f"{node.name}: DocString not found."
docstring_entry(name, doc) ==
    IF doc.present /\ doc.text # <<>>
    THEN name \o <<":", "\n">> \o doc.text
    ELSE name \o NotFoundText

get_docstrings(t) ==
    LET nodes == SelectSeq(ast_walk(t),
                    LAMBDA n : /\ isinstance(t, n, {"ClassDef", "FunctionDef"})
                               /\ ~(/\ isinstance(t, n, {"FunctionDef"})
                                    /\ is_special_method(name_of(t, n))))
    IN  [i \in 1..Len(nodes) |->
            docstring_entry(name_of(t, nodes[i]), ast_get_docstring(t, nodes[i]))]

\* all(arg.annotation for arg in node.args.args)
has_annotations(t, id) ==
    \A k \in DOMAIN t.node[id].args.args : t.node[id].args.args[k]

get_type_annotation_issues(t) ==
    names_of(t, SelectSeq(ast_walk(t),
                          LAMBDA n : /\ isinstance(t, n, {"FunctionDef"})
                                     /\ ~is_special_method(name_of(t, n))
                                     /\ (~has_annotations(t, n) \/ ~t.node[n].returns)))

(***************************************************************************)
(* re.match: a pattern is run over the set of positions it can have        *)
(* reached (0 = before the first character).                               *)
(***************************************************************************)
\* [cls]+
re_plus(s, P, cls) ==
    {j \in 1..Len(s) : \E i \in P : i < j /\ \A k \in (i+1)..j : s[k] \in cls}

\* [cls]*
re_star(s, P, cls) == P \cup re_plus(s, P, cls)

\* c?
re_opt(s, P, c) ==
    P \cup {i + 1 : i \in {p \in P : p < Len(s) /\ s[p + 1] = c}}

\* ([a-z]+_?)
re_group(s, P) == re_opt(s, re_plus(s, P, Lower), "_")

\* ([a-z]+_?)*
RECURSIVE re_group_star(_, _)
re_group_star(s, P) ==
    IF re_group(s, P) \subseteq P THEN P
    ELSE re_group_star(s, P \cup re_group(s, P))

\* $: at the end, or before a line break that ends the text
re_end(s, P) ==
    {i \in P : i = Len(s) \/ (i = Len(s) - 1 /\ s[Len(s)] = "\n")}

\* re.match(r'^[A-Z][A-Za-z0-9]*$', cls)
matches_camel_case(s) ==
    /\ Len(s) >= 1
    /\ s[1] \in Upper
    /\ re_end(s, re_star(s, {1}, Upper \cup Lower \cup Digit)) # {}

\* A pattern without the optional underscore: ^([a-z]+)*[a-z]+$
matches_snake_case_no_underscore(s) ==
    re_end(s, re_plus(s, {0}, Lower)) # {}

\* re.match(r'^([a-z]+_?)*[a-z]+$', node.name)
matches_snake_case(s) ==
    re_end(s, re_plus(s, re_group_star(s, {0}), Lower)) # {}

check_class_naming(cls) == SelectSeq(cls, LAMBDA c : ~matches_camel_case(c))

\* A version that does not skip the special methods.
check_function_naming_no_skip(t) ==
    names_of(t, SelectSeq(ast_walk(t),
                          LAMBDA n : /\ isinstance(t, n, {"FunctionDef"})
                                     /\ ~matches_snake_case(name_of(t, n))))

check_function_naming(t) ==
    names_of(t, SelectSeq(ast_walk(t),
                          LAMBDA n : /\ isinstance(t, n, {"FunctionDef"})
                                     /\ ~is_special_method(name_of(t, n))
                                     /\ ~matches_snake_case(name_of(t, n))))

(***************************************************************************)
(* main, one action per statement that can be observed from outside or     *)
(* can fail. With pc = "lib" the same functions are called directly on a   *)
(* tree, in any order.                                                     *)
(***************************************************************************)
MainOrder ==
    <<"input", "read_source_file", "parse_ast", "add_parents", "get_imports",
      "get_classes", "get_functions", "get_docstrings",
      "get_type_annotation_issues", "check_class_naming",
      "check_function_naming", "get_special_methods", "write_report", "print",
      "returned">>

At(step) == pc = step \/ pc = "lib"

After(step) ==
    IF pc = "lib" THEN "lib"
    ELSE MainOrder[(CHOOSE i \in DOMAIN MainOrder : MainOrder[i] = step) + 1]

Facts ==
    {"imports", "classes", "functions", "docstrings", "missing_annotations",
     "bad_class_names", "bad_func_names", "special_methods"}

NoReport == [exists |-> FALSE, data |-> <<>>]

InvalidFileMsg == "Invalid file. Please provide a valid .py file path."

ReportWrittenMsg == "Report written to"

\* A version with the two tests joined the other way round.
path_accepted_either(e) == e.isfile \/ e.py

\* not (not os.path.isfile(file_path) or not file_path.endswith('.py'))
path_accepted(e) == e.isfile /\ e.py

\* A parser that answers a malformed text with an empty Module.
parse_ast_lenient(e) ==
    IF e.valid THEN [ok |-> TRUE, tree |-> e.tree]
    ELSE [ok |-> TRUE, tree |-> [n |-> 1, par |-> <<0>>, node |-> <<ModuleNode>>]]

\* ast.parse(source): the tree, or SyntaxError
parse_ast(e) ==
    IF e.valid THEN [ok |-> TRUE, tree |-> e.tree]
    ELSE [ok |-> FALSE, tree |-> NoTree]

facts == <<imports, classes, functions, docstrings, missing_annotations,
           bad_class_names, bad_func_names, special_methods>>

outside == <<lines, stdout, writes, report, raised>>

\* file_path = input(...).strip(); the test of the path; the early return
main_input ==
    /\ pc = "input"
    /\ IF path_accepted(env)
       THEN pc' = "read_source_file" /\ stdout' = stdout
       ELSE pc' = "returned" /\ stdout' = Append(stdout, InvalidFileMsg)
    /\ UNCHANGED <<env, tree, parent, runs, done, facts, lines, writes, report, raised>>

\* source, lines = read_source_file(file_path)
main_read_source_file ==
    /\ pc = "read_source_file"
    /\ IF env.isfile /\ env.readable
       THEN pc' = "parse_ast" /\ lines' = env.nlines /\ done' = done \cup {"lines"}
            /\ raised' = raised
       ELSE pc' = "raised" /\ raised' = "OSError" /\ UNCHANGED <<lines, done>>
    /\ UNCHANGED <<env, tree, parent, runs, facts, stdout, writes, report>>

\* tree = parse_ast(source)
main_parse_ast ==
    /\ pc = "parse_ast"
    /\ IF parse_ast(env).ok
       THEN /\ pc' = "add_parents"
            /\ tree' = parse_ast(env).tree
            /\ parent' = Unannotated(parse_ast(env).tree)
            /\ raised' = raised
       ELSE pc' = "raised" /\ raised' = "SyntaxError" /\ UNCHANGED <<tree, parent>>
    /\ UNCHANGED <<env, runs, done, facts, lines, stdout, writes, report>>

do_add_parents ==
    /\ At("add_parents")
    /\ parent' = add_parents(tree, parent)
    /\ runs' = IF runs = 0 THEN 1 ELSE 2
    /\ pc' = After("add_parents")
    /\ UNCHANGED <<env, tree, done, facts, outside>>

do_get_imports ==
    /\ At("get_imports")
    /\ imports' = get_imports(tree)
    /\ done' = done \cup {"imports"}
    /\ pc' = After("get_imports")
    /\ UNCHANGED <<env, tree, parent, runs, classes, functions, docstrings,
                   missing_annotations, bad_class_names, bad_func_names,
                   special_methods, outside>>

do_get_classes ==
    /\ At("get_classes")
    /\ classes' = get_classes(tree)
    /\ done' = done \cup {"classes"}
    /\ pc' = After("get_classes")
    /\ UNCHANGED <<env, tree, parent, runs, imports, functions, docstrings,
                   missing_annotations, bad_class_names, bad_func_names,
                   special_methods, outside>>

do_get_functions ==
    /\ At("get_functions")
    /\ functions' = get_functions(tree, parent)
    /\ done' = done \cup {"functions"}
    /\ pc' = After("get_functions")
    /\ UNCHANGED <<env, tree, parent, runs, imports, classes, docstrings,
                   missing_annotations, bad_class_names, bad_func_names,
                   special_methods, outside>>

do_get_docstrings ==
    /\ At("get_docstrings")
    /\ docstrings' = get_docstrings(tree)
    /\ done' = done \cup {"docstrings"}
    /\ pc' = After("get_docstrings")
    /\ UNCHANGED <<env, tree, parent, runs, imports, classes, functions,
                   missing_annotations, bad_class_names, bad_func_names,
                   special_methods, outside>>

do_get_type_annotation_issues ==
    /\ At("get_type_annotation_issues")
    /\ missing_annotations' = get_type_annotation_issues(tree)
    /\ done' = done \cup {"missing_annotations"}
    /\ pc' = After("get_type_annotation_issues")
    /\ UNCHANGED <<env, tree, parent, runs, imports, classes, functions,
                   docstrings, bad_class_names, bad_func_names,
                   special_methods, outside>>

do_check_class_naming ==
    /\ At("check_class_naming")
    /\ bad_class_names' = check_class_naming(classes)
    /\ done' = done \cup {"bad_class_names"}
    /\ pc' = After("check_class_naming")
    /\ UNCHANGED <<env, tree, parent, runs, imports, classes, functions,
                   docstrings, missing_annotations, bad_func_names,
                   special_methods, outside>>

do_check_function_naming ==
    /\ At("check_function_naming")
    /\ bad_func_names' = check_function_naming(tree)
    /\ done' = done \cup {"bad_func_names"}
    /\ pc' = After("check_function_naming")
    /\ UNCHANGED <<env, tree, parent, runs, imports, classes, functions,
                   docstrings, missing_annotations, bad_class_names,
                   special_methods, outside>>

do_get_special_methods ==
    /\ At("get_special_methods")
    /\ special_methods' = get_special_methods(tree)
    /\ done' = done \cup {"special_methods"}
    /\ pc' = After("get_special_methods")
    /\ UNCHANGED <<env, tree, parent, runs, imports, classes, functions,
                   docstrings, missing_annotations, bad_class_names,
                   bad_func_names, outside>>

\* report_data = {...}; write_report(report_path, report_data): open(.., 'w')
\* succeeds and everything is written, or it raises
main_write_report ==
    /\ pc = "write_report"
    /\ writes' = writes + 1
    /\ IF env.writable
       THEN /\ report' = [exists |-> TRUE, data |-> <<lines>> \o facts]
            /\ pc' = "print"
            /\ raised' = raised
       ELSE pc' = "raised" /\ raised' = "OSError" /\ report' = report
    /\ UNCHANGED <<env, tree, parent, runs, done, facts, lines, stdout>>

\* print(f"Report written to {report_path}")
main_print ==
    /\ pc = "print"
    /\ stdout' = Append(stdout, ReportWrittenMsg)
    /\ pc' = "returned"
    /\ UNCHANGED <<env, tree, parent, runs, done, facts, lines, writes, report, raised>>

(***************************************************************************)
(* Inputs.                                                                 *)
(***************************************************************************)
n_os == <<"o", "s">>
n_re == <<"r", "e">>
n_ast == <<"a", "s", "t">>
n_Path == <<"P", "a", "t", "h">>
n_A == <<"A">>
n_B == <<"B">>
n_Foo == <<"F", "o", "o">>
n_f == <<"f">>
n_g == <<"g">>
n_bar == <<"b", "a", "r">>
n_init == <<"_", "_", "i", "n", "i", "t", "_", "_">>
n_do_thing == <<"d", "o", "_", "t", "h", "i", "n", "g">>
n_DoThing == <<"D", "o", "T", "h", "i", "n", "g">>
n_do__thing == <<"d", "o", "_", "_", "t", "h", "i", "n", "g">>
n__do == <<"_", "d", "o">>
n_do1 == <<"d", "o", "1">>
t_hi == <<"h", "i">>

\* def bar(self): ...
SelfOnly == Params(<<>>, <<FALSE>>, <<>>, <<>>, <<>>)

MainDescs ==
    {ImportNode(<<n_os>>),
     ClassDef(n_Foo, NoDoc),
     FunctionDef(n_bar, Doc(t_hi), SelfOnly, FALSE),
     FunctionDef(n_init, NoDoc, SelfOnly, FALSE)}

ClassDescs ==
    {ClassDef(n_A, NoDoc),
     ClassDef(n_B, NoDoc),
     FunctionDef(n_f, NoDoc, NoParams, FALSE),
     IfNode}

StructureDescs ==
    {ClassDef(n_A, NoDoc),
     FunctionDef(n_f, NoDoc, NoParams, FALSE),
     AsyncFunctionDef(n_g, NoDoc, NoParams, FALSE),
     IfNode,
     NameNode}

ImportDescs ==
    {ImportNode(<<n_os>>),
     ImportNode(<<n_re, n_ast>>),
     ImportFromNode(<<n_os>>),
     ImportFromNode(<<n_Path>>),
     IfNode}

DocDescs ==
    {ClassDef(n_A, NoDoc),
     ClassDef(n_A, Doc(t_hi)),
     FunctionDef(n_f, NoDoc, NoParams, FALSE),
     FunctionDef(n_f, Doc(<<" ">> \o t_hi), NoParams, FALSE),
     FunctionDef(n_f, Doc(<<" ">>), NoParams, FALSE),
     FunctionDef(n_init, Doc(t_hi), NoParams, FALSE),
     AsyncFunctionDef(n_g, Doc(t_hi), NoParams, FALSE)}

SeqsUpTo(S, k) == UNION {[1..m -> S] : m \in 0..k}

\* At most one parameter that is not positional-or-keyword.
OtherParams ==
    {Params(p, <<>>, v, k, w) :
        p \in SeqsUpTo(BOOLEAN, 1), v \in SeqsUpTo(BOOLEAN, 1),
        k \in SeqsUpTo(BOOLEAN, 1), w \in SeqsUpTo(BOOLEAN, 1)}

ParamVariants ==
    {Params(o.posonlyargs, a, o.vararg, o.kwonlyargs, o.kwarg) :
        o \in {x \in OtherParams :
                 Len(x.posonlyargs) + Len(x.vararg) + Len(x.kwonlyargs) + Len(x.kwarg) <= 1},
        a \in SeqsUpTo(BOOLEAN, MaxArgs)}

AnnotationContext ==
    {ClassDef(n_A, NoDoc), FunctionDef(n_f, NoDoc, NoParams, FALSE)}

AnnotationFocus ==
    {FunctionDef(nm, NoDoc, ps, r) :
        nm \in {n_f, n_g, n_init}, ps \in ParamVariants, r \in BOOLEAN}

NameAlphabet == {"a", "Z", "_", "1"}

\* Identifiers: no digit in front.
EnumeratedNames ==
    {s \in SeqsUpTo(NameAlphabet, MaxNameLen) : s # <<>> /\ s[1] \notin Digit}

ExampleNames == {n_do_thing, n_DoThing, n_do__thing, n__do, n_do1, n_init}

NamingContext ==
    {ClassDef(n_A, NoDoc), FunctionDef(n_DoThing, NoDoc, NoParams, FALSE)}

NamingFocus ==
    {FunctionDef(nm, NoDoc, NoParams, FALSE) : nm \in EnumeratedNames \cup ExampleNames}

\* A module with the declaration d alone, before, after, and in the body of
\* the declaration c.
Placements(c, d) ==
    {[n |-> 2, par |-> <<0, 1>>, node |-> <<ModuleNode, d>>],
     [n |-> 3, par |-> <<0, 1, 1>>, node |-> <<ModuleNode, d, c>>],
     [n |-> 3, par |-> <<0, 1, 1>>, node |-> <<ModuleNode, c, d>>],
     [n |-> 3, par |-> <<0, 1, 2>>, node |-> <<ModuleNode, c, d>>]}

FocusTrees(context, focus) ==
    UNION {Placements(c, d) : c \in context, d \in focus}

LibEnv(t) ==
    [isfile |-> TRUE, py |-> TRUE, readable |-> TRUE, writable |-> TRUE,
     valid |-> TRUE, nlines |-> 0, tree |-> t]

\* The path is a .py file that can be read and parses.
GoodEnvs ==
    {[isfile |-> TRUE, py |-> TRUE, readable |-> TRUE, writable |-> w,
      valid |-> TRUE, nlines |-> k, tree |-> t] :
        w \in BOOLEAN,
        k \in 0..MaxLines,
        t \in Trees(MainDescs)}

\* Something is wrong with the path, the file or its text.
BadEnvs ==
    {e \in {[isfile |-> a, py |-> b, readable |-> r, writable |-> TRUE,
             valid |-> v, nlines |-> k, tree |-> NoTree] :
               a \in BOOLEAN, b \in BOOLEAN, r \in BOOLEAN, v \in BOOLEAN,
               k \in 0..MaxLines} :
        ~(e.isfile /\ e.py /\ e.readable /\ e.valid)}

\* A text with a statement in it has a line.
MainEnvs ==
    {e \in GoodEnvs \cup BadEnvs : e.tree.n > 1 => e.nlines >= 1}

InitCommon ==
    /\ runs = 0
    /\ done = {}
    /\ imports = <<>>
    /\ classes = <<>>
    /\ functions = <<>>
    /\ docstrings = <<>>
    /\ missing_annotations = <<>>
    /\ bad_class_names = <<>>
    /\ bad_func_names = <<>>
    /\ special_methods = <<>>
    /\ lines = 0
    /\ stdout = <<>>
    /\ writes = 0
    /\ report = NoReport
    /\ raised = ""

\* main has been started.
Init ==
    /\ pc = "input"
    /\ env \in MainEnvs
    /\ tree = NoTree
    /\ parent = Unannotated(NoTree)
    /\ InitCommon

\* A parsed tree, not yet annotated, is at hand.
InitLib(T) ==
    /\ pc = "lib"
    /\ tree \in T
    /\ env = LibEnv(tree)
    /\ parent = Unannotated(tree)
    /\ InitCommon

Next ==
    \/ main_input
    \/ main_read_source_file
    \/ main_parse_ast
    \/ do_add_parents
    \/ do_get_imports
    \/ do_get_classes
    \/ do_get_functions
    \/ do_get_docstrings
    \/ do_get_type_annotation_issues
    \/ do_check_class_naming
    \/ do_check_function_naming
    \/ do_get_special_methods
    \/ main_write_report
    \/ main_print

Spec == Init /\ [][Next]_vars

NextStructure == do_add_parents \/ do_get_functions

SpecStructure == InitLib(Trees(StructureDescs)) /\ [][NextStructure]_vars

SpecClasses == InitLib(Trees(ClassDescs)) /\ [][do_get_classes]_vars

SpecImports == InitLib(Trees(ImportDescs)) /\ [][do_get_imports]_vars

SpecDocs == InitLib(Trees(DocDescs)) /\ [][do_get_docstrings]_vars

SpecAnnotations ==
    InitLib(FocusTrees(AnnotationContext, AnnotationFocus))
        /\ [][do_get_type_annotation_issues]_vars

SpecNaming ==
    InitLib(FocusTrees(NamingContext, NamingFocus))
        /\ [][do_check_function_naming]_vars

(***************************************************************************)
(* What the properties speak of, said without the extractors.              *)
(***************************************************************************)
Count(s, x) == Cardinality({i \in DOMAIN s : s[i] = x})

OfKind(t, kinds) == {n \in Ids(t) : t.node[n].kind \in kinds}

Named(S, t, nm) == {n \in S : t.node[n].name = nm}

NamesOf(S, t) == {t.node[n].name : n \in S}

FunctionDecls(t) == OfKind(t, {"FunctionDef"})

ClassDecls(t) == OfKind(t, {"ClassDef"})

\* The declarations directly in the body of a class.
Methods(t) == {n \in FunctionDecls(t) : t.node[t.par[n]].kind = "ClassDef"}

FreeFunctions(t) == FunctionDecls(t) \ Methods(t)

\* The name starts and ends with two underscores.
Dunder(nm) ==
    /\ Len(nm) >= 2
    /\ nm[1] = "_" /\ nm[2] = "_"
    /\ nm[Len(nm) - 1] = "_" /\ nm[Len(nm)] = "_"

SpecialDecls(t) == {n \in FunctionDecls(t) : Dunder(t.node[n].name)}

PlainDecls(t) == FunctionDecls(t) \ SpecialDecls(t)

\* The tree as the parser built it: every node's parent, the Load singleton
\* left to whoever was visited last.
TrueParents(t, par) ==
    /\ par[RootId] = NoneId
    /\ \A n \in 2..t.n : par[n] = t.par[n]

RECURSIVE Depth(_, _)
Depth(t, n) == IF n = RootId THEN 0 ELSE 1 + Depth(t, t.par[n])

\* The way from the root to n; siblings stand in the order of their numbers.
RECURSIVE PathTo(_, _)
PathTo(t, n) == IF n = RootId THEN <<>> ELSE Append(PathTo(t, t.par[n]), n)

\* Lexicographic, a proper prefix first.
RECURSIVE PathLess(_, _)
PathLess(a, b) ==
    IF b = <<>> THEN FALSE
    ELSE IF a = <<>> THEN TRUE
    ELSE IF Head(a) = Head(b) THEN PathLess(Tail(a), Tail(b))
    ELSE Head(a) < Head(b)

\* a is met before b going depth-first, a parent before its children.
PreOrderBefore(t, a, b) == PathLess(PathTo(t, a), PathTo(t, b))

\* a is met before b going level by level.
LevelOrderBefore(t, a, b) ==
    \/ Depth(t, a) < Depth(t, b)
    \/ Depth(t, a) = Depth(t, b) /\ PreOrderBefore(t, a, b)

Before(order, t, a, b) ==
    IF order = "level" THEN LevelOrderBefore(t, a, b) ELSE PreOrderBefore(t, a, b)

\* s lists the names of the nodes S, each node once, in the given order.
ListsInOrder(s, S, t, order) ==
    /\ Len(s) = Cardinality(S)
    /\ \A n \in S :
         s[1 + Cardinality({m \in S : Before(order, t, m, n)})] = t.node[n].name

\* s lists, for every name, one entry per node of S with that name.
ListsEach(s, S, t) ==
    /\ Len(s) = Cardinality(S)
    /\ \A n \in S : Count(s, t.node[n].name) = Cardinality(Named(S, t, t.node[n].name))

(***************************************************************************)
(* C1: once add_parents has run, get_functions returns exactly the names   *)
(* of the function declarations whose parent is not a class declaration,   *)
(* one entry each, and every function declaration is either among them or  *)
(* a method (its parent is a class declaration), never both, never         *)
(* neither.                                                                *)
(***************************************************************************)
PartitionedByParent(t, fs) ==
    /\ ListsEach(fs, FreeFunctions(t), t)
    /\ Range(fs) = NamesOf(FreeFunctions(t), t)
    /\ Len(fs) + Cardinality(Methods(t)) = Cardinality(FunctionDecls(t))

C1_FreeFunctionsByParent ==
    [][(do_get_functions /\ runs >= 1) => PartitionedByParent(tree, functions')]_vars

C1_Witness ==
    /\ runs >= 1
    /\ "functions" \in done
    /\ functions # <<>>
    /\ Methods(tree) # {}
    /\ \E n \in FreeFunctions(tree) : tree.par[n] # RootId
    /\ Len(functions) = Cardinality(FreeFunctions(tree))

(***************************************************************************)
(* C6 as stated: get_classes returns the class names in pre-order (a       *)
(* parent before its children, an earlier sibling's subtree before the     *)
(* later sibling), duplicates kept, so that a class nested in the first    *)
(* top-level class precedes the second top-level class.                    *)
(***************************************************************************)
C6_PreOrder ==
    "classes" \in done =>
        ListsInOrder(classes, ClassDecls(tree), tree, "pre")

(***************************************************************************)
(* C6 amended: get_classes returns the class names level by level (the     *)
(* order of ast.walk): a class nearer the root before a deeper one, and    *)
(* within a level in tree order; duplicates kept. A class nested in the    *)
(* first top-level class follows the second top-level class.               *)
(***************************************************************************)
C6_LevelOrder ==
    "classes" \in done =>
        ListsInOrder(classes, ClassDecls(tree), tree, "level")

C6_Witness ==
    /\ "classes" \in done
    /\ \E a, b, c \in ClassDecls(tree) :
         /\ tree.par[a] = RootId /\ tree.par[c] = RootId /\ tree.par[b] = a
         /\ a < c
         /\ tree.node[b].name # tree.node[c].name
         /\ classes = <<tree.node[a].name, tree.node[c].name, tree.node[b].name>>

(***************************************************************************)
(* C10: add_parents run again on an annotated tree leaves every node's     *)
(* parent reference as it was, and with it the output of every extractor.  *)
(***************************************************************************)
AllFacts(t, par) ==
    <<get_imports(t), get_classes(t), get_functions(t, par),
      get_special_methods(t), get_docstrings(t), get_type_annotation_issues(t),
      check_class_naming(get_classes(t)), check_function_naming(t)>>

C10_ReannotationChangesNothing ==
    [][(do_add_parents /\ runs >= 1) =>
          /\ parent' = parent
          /\ AllFacts(tree', parent') = AllFacts(tree, parent)]_vars

C10_Witness ==
    /\ runs = 2
    /\ TrueParents(tree, parent)
    /\ Methods(tree) # {}
    /\ \E n \in Methods(tree) : Depth(tree, n) >= 2 /\ parent[n] \in ClassDecls(tree)
    /\ parent[LoadId] \in OfKind(tree, {"Name"})

(***************************************************************************)
(* C4: get_imports returns a strictly ascending sequence (sorted by code   *)
(* point, no duplicates) that holds the first name of every import         *)
(* statement of the tree and nothing else.                                 *)
(***************************************************************************)
ImportStatements(t) == OfKind(t, {"Import", "ImportFrom"})

PrimaryNames(t) == {t.node[n].names[1] : n \in ImportStatements(t)}

StrictlyAscending(s) == \A i \in 1..(Len(s) - 1) : StrLess(s[i], s[i + 1])

C4_ImportsSortedUnique ==
    "imports" \in done =>
        /\ StrictlyAscending(imports)
        /\ Range(imports) = PrimaryNames(tree)

C4_Witness ==
    /\ "imports" \in done
    /\ Len(imports) >= 2
    /\ \E a, b \in ImportStatements(tree) :
         a # b /\ tree.node[a].names[1] = tree.node[b].names[1]
    /\ \E a, b \in ImportStatements(tree) :
         /\ LevelOrderBefore(tree, a, b)
         /\ StrLess(tree.node[b].names[1], tree.node[a].names[1])

(***************************************************************************)
(* C5 as stated: get_docstrings emits one entry for every class            *)
(* declaration and every function declaration that is not a special        *)
(* method, and none for anything else: "<name>: <documentation text>"      *)
(* when the declaration has a documentation string, "<name>: DocString     *)
(* not found." when it has none.                                           *)
(***************************************************************************)
Documented(t) == ClassDecls(t) \cup PlainDecls(t)

FirstNonBlank(text) ==
    IF \E i \in DOMAIN text : text[i] # " "
    THEN CHOOSE i \in DOMAIN text :
            text[i] # " " /\ \A j \in 1..(i - 1) : text[j] = " "
    ELSE Len(text) + 1

\* The documentation string without its leading blanks.
DocText(t, n) ==
    SubSeq(t.node[n].doc.text, FirstNonBlank(t.node[n].doc.text),
           Len(t.node[n].doc.text))

ClaimedNotFound ==
    <<":", " ", "D", "o", "c", "S", "t", "r", "i", "n", "g", " ",
      "n", "o", "t", " ", "f", "o", "u", "n", "d", ".">>

EntryAsStated(t, n) ==
    IF t.node[n].doc.present
    THEN t.node[n].name \o <<":", " ">> \o DocText(t, n)
    ELSE t.node[n].name \o ClaimedNotFound

EntryAsAmended(t, n) ==
    IF t.node[n].doc.present /\ DocText(t, n) # <<>>
    THEN t.node[n].name \o <<":", "\n">> \o DocText(t, n)
    ELSE t.node[n].name \o ClaimedNotFound

Entry(form, t, n) ==
    IF form = "stated" THEN EntryAsStated(t, n) ELSE EntryAsAmended(t, n)

\* ds holds the entry of every documented declaration, once each, no more.
EmitsOneEach(ds, t, form) ==
    /\ Len(ds) = Cardinality(Documented(t))
    /\ \A n \in Documented(t) :
         Count(ds, Entry(form, t, n))
            = Cardinality({m \in Documented(t) : Entry(form, t, m) = Entry(form, t, n)})

C5_EntriesAsStated ==
    "docstrings" \in done =>
        EmitsOneEach(docstrings, tree, "stated")

(***************************************************************************)
(* C5 amended: get_docstrings emits one entry for every class declaration  *)
(* and every function declaration that is not a special method, and none   *)
(* for anything else: the name, a colon, a line break and the cleaned      *)
(* documentation text when the declaration has a documentation string      *)
(* that is not empty after cleaning, "<name>: DocString not found." when   *)
(* it has none or an empty one.                                            *)
(***************************************************************************)
C5_EntriesWithLineBreak ==
    "docstrings" \in done =>
        EmitsOneEach(docstrings, tree, "amended")

C5_Witness ==
    /\ "docstrings" \in done
    /\ SpecialDecls(tree) # {}
    /\ \E n \in ClassDecls(tree) :
         tree.node[n].doc.present /\ DocText(tree, n) = tree.node[n].doc.text
    /\ \E n \in PlainDecls(tree) :
         /\ tree.node[n].doc.present
         /\ DocText(tree, n) # tree.node[n].doc.text
    /\ Len(docstrings) = 2

(***************************************************************************)
(* C2: get_type_annotation_issues lists every function declaration that is *)
(* not a special method exactly once if one of its parameters, of whatever *)
(* kind, has no declared type or it has no declared return type, and not   *)
(* at all if every parameter and the return type are annotated; a function *)
(* with no parameters and no return type is listed.                        *)
(***************************************************************************)
AllParameters(a) == a.posonlyargs \o a.args \o a.vararg \o a.kwonlyargs \o a.kwarg

FullyAnnotated(t, n) ==
    /\ \A k \in DOMAIN AllParameters(t.node[n].args) : AllParameters(t.node[n].args)[k]
    /\ t.node[n].returns

C2_AnyParameterKind ==
    "missing_annotations" \in done =>
        ListsEach(missing_annotations,
                  {n \in PlainDecls(tree) : ~FullyAnnotated(tree, n)}, tree)

(***************************************************************************)
(* C7: check_function_naming lists the name of a function declaration that *)
(* is not a special method if and only if the name is not one or more      *)
(* groups of lowercase letters separated by single underscores; "do_thing" *)
(* is not listed, "DoThing", "do__thing", "_do", "do1" are.                *)
(***************************************************************************)
IsSnakeCase(nm) ==
    /\ Len(nm) >= 1
    /\ \A i \in DOMAIN nm : nm[i] \in Lower \cup {"_"}
    /\ nm[1] # "_"
    /\ nm[Len(nm)] # "_"
    /\ \A i \in 1..(Len(nm) - 1) : ~(nm[i] = "_" /\ nm[i + 1] = "_")

C7_ListedIffNotSnakeCase ==
    "bad_func_names" \in done =>
        /\ ListsEach(bad_func_names,
                     {n \in PlainDecls(tree) : ~IsSnakeCase(tree.node[n].name)}, tree)
        /\ n_do_thing \notin Range(bad_func_names)
        /\ \A nm \in {n_DoThing, n_do__thing, n__do, n_do1} :
             Named(FunctionDecls(tree), tree, nm) # {} => nm \in Range(bad_func_names)

C7_Witness ==
    /\ "bad_func_names" \in done
    /\ Named(FunctionDecls(tree), tree, n_do_thing) # {}
    /\ Named(FunctionDecls(tree), tree, n_DoThing) # {}
    /\ bad_func_names = <<n_DoThing>>

(***************************************************************************)
(* C8: when the path entered is not an existing regular file or does not   *)
(* end in .py, main prints a message and returns without raising; it       *)
(* reads no file, parses nothing, runs no extractor, writes no report.     *)
(***************************************************************************)
C8_InvalidPathReturnsCleanly ==
    (~(env.isfile /\ env.py) /\ pc # "input") =>
        /\ pc = "returned"
        /\ stdout = <<InvalidFileMsg>>
        /\ raised = ""
        /\ done = {}
        /\ tree = NoTree
        /\ runs = 0
        /\ writes = 0
        /\ report = NoReport

C8_Witness ==
    /\ pc = "returned"
    /\ ~env.isfile
    /\ env.py
    /\ stdout = <<InvalidFileMsg>>

EntryName(e) ==
    SubSeq(e, 1, (CHOOSE i \in DOMAIN e : e[i] = ":" /\ \A j \in 1..(i - 1) : e[j] # ":") - 1)

SpecialOnlyOutsideFunctions(t) ==
    \A n \in SpecialDecls(t) :
        LET nm == t.node[n].name IN
        /\ "special_methods" \in done =>
              Count(special_methods, nm) = Cardinality(Named(SpecialDecls(t), t, nm))
        /\ "docstrings" \in done =>
              Cardinality({i \in DOMAIN docstrings : EntryName(docstrings[i]) = nm})
                 = Cardinality(Named(ClassDecls(t), t, nm))
        /\ "missing_annotations" \in done => nm \notin Range(missing_annotations)
        /\ "bad_func_names" \in done => nm \notin Range(bad_func_names)

C3_SpecialOnly ==
    /\ SpecialOnlyOutsideFunctions(tree)
    /\ "functions" \in done =>
          \A n \in SpecialDecls(tree) : tree.node[n].name \notin Range(functions)

(***************************************************************************)
(* C3 amended: a function declaration whose name starts and ends with two  *)
(* underscores is reported in the special-methods list and has no entry    *)
(* among the docstring entries, the missing annotations or the bad         *)
(* function names, whatever its scope; it is also among the free functions *)
(* exactly when its parent is not a class declaration.                     *)
(***************************************************************************)
C3_SpecialAndFreeByParent ==
    /\ SpecialOnlyOutsideFunctions(tree)
    /\ "functions" \in done =>
          \A n \in SpecialDecls(tree) :
              Count(functions, tree.node[n].name)
                 = Cardinality(Named(SpecialDecls(tree) \ Methods(tree), tree,
                                     tree.node[n].name))

C3_Witness ==
    /\ pc = "returned"
    /\ report.exists
    /\ SpecialDecls(tree) \cap Methods(tree) # {}
    /\ SpecialDecls(tree) \ Methods(tree) # {}
    /\ Len(special_methods) = 2
    /\ Len(functions) = 1

====
